---- MODULE Spec2Model ----
(***************************************************************************)
(* Healthcare gateway agent: caller verification (phone lookup, date of    *)
(* birth, last four SSN digits), recording control and routing, as         *)
(* implemented by HealthcareGatewayAgent in src/reference/solution.py.     *)
(*                                                                         *)
(* Python strings whose characters matter (dates of birth, SSN digits,     *)
(* patient ids, call ids) are sequences of one-character strings, so that  *)
(* str.replace and str.strip are computed character by character.          *)
(* Dictionaries are functions whose DOMAIN is the set of keys present.     *)
(***************************************************************************)
EXTENDS Integers, Sequences, FiniteSets, TLC

VARIABLES
    global_data,   \* the call's global_data dictionary (the session)
    call_id,       \* raw_data["call_id"] of this call
    log,           \* what _log_security_event wrote, in order
    intents,       \* call-control actions of all results, in order
    last,          \* the last event, the dictionary it read and its result
    obs,           \* what the submitted values were, judged against PATIENTS
    now,           \* how many times datetime.now() was read: each read is later
    pending,       \* handlers that have returned, their results not yet applied
    gateway        \* GatewayAgent.route_call: the department asked, the result

vars == <<global_data, call_id, log, intents, last, obs, now, pending, gateway>>

----------------------------------------------------------------------------
(* Bounds of the exploration *)

MaxLog == 4
MaxIntents == 4
MaxInFlight == 2

----------------------------------------------------------------------------
(* Program data *)

MAX_VERIFICATION_ATTEMPTS == 3

None == <<"None">>

Phone1 == "+15551234567"
Phone2 == "+15559876543"
PhoneUnlisted == "+15550000000"

P001 == <<"P", "0", "0", "1">>
P002 == <<"P", "0", "0", "2">>

Dob1 == <<"1", "9", "8", "5", "-", "0", "3", "-", "1", "5">>
Dob2 == <<"1", "9", "9", "0", "-", "0", "7", "-", "2", "2">>

Ssn1 == <<"1", "2", "3", "4">>
Ssn2 == <<"5", "6", "7", "8">>

\* hashlib.sha256(s.encode()).hexdigest(): a digest that is not the digits
\* and that two different inputs never share.
Sha256Hex(s) == [alg |-> "sha256", of |-> s]

PATIENTS ==
    (Phone1 :> [id |-> P001, name |-> "John Smith", dob |-> Dob1,
                ssn_last4_hash |-> Sha256Hex(Ssn1)])
    @@
    (Phone2 :> [id |-> P002, name |-> "Jane Doe", dob |-> Dob2,
                ssn_last4_hash |-> Sha256Hex(Ssn2)])

----------------------------------------------------------------------------
(* Inputs the events are drawn from *)

CallerIds == {Phone1, Phone2, PhoneUnlisted}

CallIds == {<<"c", "1">>}

Dob1Spoken == <<" ", "1", "9", "8", "5", "/", "0", "3", "/", "1", "5", " ">>
Dob1OffByOne == <<"1", "9", "8", "5", "-", "0", "3", "-", "1", "6">>

DobInputs == {Dob1, Dob1Spoken, Dob1OffByOne, Dob2}

SsnInputs == {Ssn1, Ssn2, <<"0", "0", "0", "0">>}

----------------------------------------------------------------------------
(* Python helpers *)

\* dict.get(key): None when the key is absent
Get(d, k) == IF k \in DOMAIN d THEN d[k] ELSE None

\* dict.get(key, default)
GetOr(d, k, default) == IF k \in DOMAIN d THEN d[k] ELSE default

\* truth value of d.get(key) for a key that holds a bool
Flag(d, k) == k \in DOMAIN d /\ d[k] = TRUE

\* truth value of d.get(key) for a key that holds a str
NonEmpty(d, k) == k \in DOMAIN d /\ d[k] # <<>> /\ d[k] # None

\* update_global_data: the result's keys replace the session's
Merge(d, update) == update @@ d

EmptyDict == [k \in {} |-> None]

Whitespace == {" ", "\t", "\n", "\r"}

\* str.replace(old, new) for one-character old and new
Replace(s, old, new) == [i \in 1..Len(s) |-> IF s[i] = old THEN new ELSE s[i]]

RECURSIVE LStrip(_)
LStrip(s) == IF s # <<>> /\ Head(s) \in Whitespace THEN LStrip(Tail(s)) ELSE s

RECURSIVE RStrip(_)
RStrip(s) ==
    IF s # <<>> /\ s[Len(s)] \in Whitespace
    THEN RStrip(SubSeq(s, 1, Len(s) - 1))
    ELSE s

\* str.strip()
Strip(s) == RStrip(LStrip(s))

\* dob.replace("/", "-").strip()
NormalizeDob(dob) == Strip(Replace(dob, "/", "-"))

----------------------------------------------------------------------------
(* Values of a logged dictionary, tagged with their Python type *)

StrV(s) == <<"str", s>>
IntV(n) == <<"int", n>>

SensitiveKeys == {"ssn", "ssn_last4", "dob"}

\* _log_security_event: the entry written for (event_type, data); data is a
\* set of <<key, value>> pairs
LogSecurityEvent(event_type, data) ==
    [type |-> event_type,
     data |-> {kv \in data : kv[1] \notin SensitiveKeys}]

\* _verify_ssn answering for the patient without comparing the digests
VerifySsnDigest_any_digits(patient_id, ssn_last4) ==
    \E ph \in DOMAIN PATIENTS : PATIENTS[ph].id = patient_id

\* _verify_ssn: the first patient with this id decides
VerifySsnDigest(patient_id, ssn_last4) ==
    IF \E ph \in DOMAIN PATIENTS : PATIENTS[ph].id = patient_id
    THEN LET ph == CHOOSE p \in DOMAIN PATIENTS : PATIENTS[p].id = patient_id
         IN  Sha256Hex(ssn_last4) = PATIENTS[ph].ssn_last4_hash
    ELSE FALSE

----------------------------------------------------------------------------
(* Call-control actions of a SwaigFunctionResult *)

PauseRecording == <<"stop_record_call", "main">>
ResumeRecording == <<"record_call", "main", "stereo", "mp3">>
Hangup == <<"hangup">>
Transfer(route) == <<"swml_transfer", route, "final">>

\* a SwaigFunctionResult, with the entries the handler logged on the way
Result(reply, actions, update, audit) ==
    [reply |-> reply, actions |-> actions, update |-> update, audit |-> audit]

----------------------------------------------------------------------------
(* The agent's configured global data, _configure_global_data *)

\* the hour the agent was constructed at
Hours == {9}

ConfiguredGlobalData(hour) ==
    [clinic_name |-> "HealthFirst Medical",
     business_hours |-> "8 AM to 6 PM",
     is_open |-> (8 <= hour /\ hour < 18),
     greeting |-> IF hour < 12 THEN "Good morning" ELSE "Good afternoon"]

----------------------------------------------------------------------------
(* The tool handlers. Each takes what the handler reads and gives its      *)
(* SwaigFunctionResult.                                                    *)

\* identify_by_phone starting the counter over on a lookup miss as well
identify_by_phone_miss_resets(config, cid, caller_id) ==
    IF caller_id \in DOMAIN PATIENTS
    THEN LET patient == PATIENTS[caller_id]
         IN  Result(<<"greeting_verify_dob", config.greeting, patient.name>>,
                    <<>>,
                    [pending_patient_id |-> patient.id,
                     pending_patient_name |-> patient.name,
                     pending_dob |-> patient.dob,
                     verification_attempts |-> 0],
                    <<LogSecurityEvent("PATIENT_IDENTIFIED",
                          {<<"call_id", StrV(cid)>>,
                           <<"patient_id", StrV(patient.id)>>})>>)
    ELSE Result(<<"phone_not_recognized">>, <<>>,
                [verification_attempts |-> 0], <<>>)

\* identify_by_phone: reads the caller id and the call id, not the session
identify_by_phone(config, cid, caller_id) ==
    IF caller_id \in DOMAIN PATIENTS
    THEN LET patient == PATIENTS[caller_id]
         IN  Result(<<"greeting_verify_dob", config.greeting, patient.name>>,
                    <<>>,
                    [pending_patient_id |-> patient.id,
                     pending_patient_name |-> patient.name,
                     pending_dob |-> patient.dob,
                     verification_attempts |-> 0],
                    <<LogSecurityEvent("PATIENT_IDENTIFIED",
                          {<<"call_id", StrV(cid)>>,
                           <<"patient_id", StrV(patient.id)>>})>>)
    ELSE Result(<<"phone_not_recognized">>, <<>>, EmptyDict, <<>>)

\* verify_dob accepting the date without stop_record_call
verify_dob_without_pause(gd, cid, dob) ==
    LET expected_dob == Get(gd, "pending_dob")
        patient_id == Get(gd, "pending_patient_id")
        attempts == GetOr(gd, "verification_attempts", 0) + 1
    IN  IF ~NonEmpty(gd, "pending_patient_id")
        THEN Result(<<"identify_account_first">>, <<>>, EmptyDict, <<>>)
        ELSE IF NormalizeDob(dob) = expected_dob
        THEN Result(<<"provide_ssn_recording_paused">>,
                    <<>>,
                    [dob_verified |-> TRUE],
                    <<LogSecurityEvent("DOB_VERIFIED",
                          {<<"call_id", StrV(cid)>>,
                           <<"patient_id", StrV(patient_id)>>})>>)
        ELSE IF attempts >= MAX_VERIFICATION_ATTEMPTS
        THEN Result(<<"too_many_attempts_call_back">>,
                    <<Hangup>>,
                    EmptyDict,
                    <<LogSecurityEvent("VERIFICATION_LOCKED",
                          {<<"call_id", StrV(cid)>>,
                           <<"patient_id", StrV(patient_id)>>})>>)
        ELSE Result(<<"dob_no_match_remaining",
                      MAX_VERIFICATION_ATTEMPTS - attempts>>,
                    <<>>,
                    [verification_attempts |-> attempts],
                    <<>>)

\* verify_dob logging the value it rejected under a key the filter lets pass
verify_dob_logs_entered_value(gd, cid, dob) ==
    LET expected_dob == Get(gd, "pending_dob")
        patient_id == Get(gd, "pending_patient_id")
        attempts == GetOr(gd, "verification_attempts", 0) + 1
    IN  IF ~NonEmpty(gd, "pending_patient_id")
        THEN Result(<<"identify_account_first">>, <<>>, EmptyDict, <<>>)
        ELSE IF NormalizeDob(dob) = expected_dob
        THEN Result(<<"provide_ssn_recording_paused">>,
                    <<PauseRecording>>,
                    [dob_verified |-> TRUE],
                    <<LogSecurityEvent("DOB_VERIFIED",
                          {<<"call_id", StrV(cid)>>,
                           <<"patient_id", StrV(patient_id)>>})>>)
        ELSE IF attempts >= MAX_VERIFICATION_ATTEMPTS
        THEN Result(<<"too_many_attempts_call_back">>,
                    <<Hangup>>,
                    EmptyDict,
                    <<LogSecurityEvent("VERIFICATION_LOCKED",
                          {<<"call_id", StrV(cid)>>,
                           <<"patient_id", StrV(patient_id)>>,
                           <<"dob_entered", StrV(dob)>>})>>)
        ELSE Result(<<"dob_no_match_remaining",
                      MAX_VERIFICATION_ATTEMPTS - attempts>>,
                    <<>>,
                    [verification_attempts |-> attempts],
                    <<>>)

verify_dob(gd, cid, dob) ==
    LET expected_dob == Get(gd, "pending_dob")
        patient_id == Get(gd, "pending_patient_id")
        attempts == GetOr(gd, "verification_attempts", 0) + 1
    IN  IF ~NonEmpty(gd, "pending_patient_id")
        THEN Result(<<"identify_account_first">>, <<>>, EmptyDict, <<>>)
        ELSE IF NormalizeDob(dob) = expected_dob
        THEN Result(<<"provide_ssn_recording_paused">>,
                    <<PauseRecording>>,
                    [dob_verified |-> TRUE],
                    <<LogSecurityEvent("DOB_VERIFIED",
                          {<<"call_id", StrV(cid)>>,
                           <<"patient_id", StrV(patient_id)>>})>>)
        ELSE IF attempts >= MAX_VERIFICATION_ATTEMPTS
        THEN Result(<<"too_many_attempts_call_back">>,
                    <<Hangup>>,
                    EmptyDict,
                    <<LogSecurityEvent("VERIFICATION_LOCKED",
                          {<<"call_id", StrV(cid)>>,
                           <<"patient_id", StrV(patient_id)>>})>>)
        ELSE Result(<<"dob_no_match_remaining",
                      MAX_VERIFICATION_ATTEMPTS - attempts>>,
                    <<>>,
                    [verification_attempts |-> attempts],
                    <<>>)

\* verify_ssn counting its failures under a key of its own
verify_ssn_checked_own_counter(gd, cid, ssn_last4, t) ==
    LET patient_id == Get(gd, "pending_patient_id")
        patient_name == Get(gd, "pending_patient_name")
        attempts == GetOr(gd, "ssn_attempts", 0) + 1
        failed == LogSecurityEvent("SSN_VERIFICATION_FAILED",
                      {<<"call_id", StrV(cid)>>,
                       <<"attempts", IntV(attempts)>>})
    IN  IF VerifySsnDigest(patient_id, ssn_last4)
        THEN Result(<<"identity_verified_recording_resumed", patient_name>>,
                    <<ResumeRecording>>,
                    [verified |-> TRUE,
                     patient_id |-> patient_id,
                     patient_name |-> patient_name,
                     verified_at |-> t],
                    <<LogSecurityEvent("VERIFICATION_SUCCESS",
                          {<<"call_id", StrV(cid)>>,
                           <<"patient_id", StrV(patient_id)>>})>>)
        ELSE IF attempts >= MAX_VERIFICATION_ATTEMPTS
        THEN Result(<<"too_many_attempts_account_locked">>,
                    <<ResumeRecording, Hangup>>,
                    EmptyDict,
                    <<failed>>)
        ELSE Result(<<"ssn_no_match_remaining",
                      MAX_VERIFICATION_ATTEMPTS - attempts>>,
                    <<>>,
                    [ssn_attempts |-> attempts],
                    <<failed>>)

\* verify_ssn once dob_verified was found set
verify_ssn_checked(gd, cid, ssn_last4, t) ==
    LET patient_id == Get(gd, "pending_patient_id")
        patient_name == Get(gd, "pending_patient_name")
        attempts == GetOr(gd, "verification_attempts", 0) + 1
        failed == LogSecurityEvent("SSN_VERIFICATION_FAILED",
                      {<<"call_id", StrV(cid)>>,
                       <<"attempts", IntV(attempts)>>})
    IN  IF VerifySsnDigest(patient_id, ssn_last4)
        THEN Result(<<"identity_verified_recording_resumed", patient_name>>,
                    <<ResumeRecording>>,
                    [verified |-> TRUE,
                     patient_id |-> patient_id,
                     patient_name |-> patient_name,
                     verified_at |-> t],
                    <<LogSecurityEvent("VERIFICATION_SUCCESS",
                          {<<"call_id", StrV(cid)>>,
                           <<"patient_id", StrV(patient_id)>>})>>)
        ELSE IF attempts >= MAX_VERIFICATION_ATTEMPTS
        THEN Result(<<"too_many_attempts_account_locked">>,
                    <<ResumeRecording, Hangup>>,
                    EmptyDict,
                    <<failed>>)
        ELSE Result(<<"ssn_no_match_remaining",
                      MAX_VERIFICATION_ATTEMPTS - attempts>>,
                    <<>>,
                    [verification_attempts |-> attempts],
                    <<failed>>)

\* verify_ssn without its dob_verified check
verify_ssn_without_dob_check(gd, cid, ssn_last4, t) ==
    verify_ssn_checked(gd, cid, ssn_last4, t)

verify_ssn(gd, cid, ssn_last4, t) ==
    IF ~Flag(gd, "dob_verified")
    THEN Result(<<"verify_dob_first">>, <<>>, EmptyDict, <<>>)
    ELSE verify_ssn_checked(gd, cid, ssn_last4, t)

\* a route handler that transfers without looking at "verified"
Route_unguarded(gd, connecting, route) ==
    Result(<<"connecting", connecting>>, <<Transfer(route)>>, EmptyDict, <<>>)

\* the body shared by route_appointments, route_billing and route_medical
Route(gd, connecting, route) ==
    IF ~Flag(gd, "verified")
    THEN Result(<<"verify_identity_first">>, <<>>, EmptyDict, <<>>)
    ELSE Result(<<"connecting", connecting>>, <<Transfer(route)>>,
                EmptyDict, <<>>)

route_appointments(gd) == Route(gd, "scheduling", "/appointments")
route_billing(gd) == Route(gd, "billing", "/billing")
route_medical(gd) == Route(gd, "our medical team", "/medical")

----------------------------------------------------------------------------
(* What a submission is, judged against the directory itself: the record   *)
(* of PATIENTS with a given id, and whether a value is that record's.      *)

HasRecord(pid) == \E ph \in DOMAIN PATIENTS : PATIENTS[ph].id = pid

RecordOf(pid) ==
    PATIENTS[CHOOSE ph \in DOMAIN PATIENTS : PATIENTS[ph].id = pid]

\* the session's candidate patient
Candidate(gd) == Get(gd, "pending_patient_id")

\* verify_dob on this session compares the value with a stored date
DobEvaluated(gd) == NonEmpty(gd, "pending_patient_id")

DobMatches(gd, dob) ==
    /\ DobEvaluated(gd)
    /\ HasRecord(Candidate(gd))
    /\ NormalizeDob(dob) = RecordOf(Candidate(gd)).dob

\* verify_ssn on this session compares the digits with a stored digest
SsnEvaluated(gd) == Flag(gd, "dob_verified")

SsnMatches(gd, ssn) ==
    /\ SsnEvaluated(gd)
    /\ HasRecord(Candidate(gd))
    /\ Sha256Hex(ssn) = RecordOf(Candidate(gd)).ssn_last4_hash

Bump(n) == IF n < MAX_VERIFICATION_ATTEMPTS THEN n + 1 ELSE n

Event(name, arg) == [name |-> name, arg |-> arg]

NoEvent == Event("none", None)

NoObs ==
    [dob_matched |-> {}, ssn_matched |-> {},
     dob_run |-> 0, ssn_run |-> 0,
     dob_miss |-> 0, ssn_miss |-> 0,
     lock_event |-> NoEvent,
     dob_total |-> 0, ssn_total |-> 0,
     path |-> 0]

\* obs after an event: the patients whose date / digits were matched so far,
\* the lengths of the current runs of consecutive mismatches per factor and
\* the mismatches per factor since the last identification (all counted up
\* to MAX_VERIFICATION_ATTEMPTS), the first event answered with a hangup,
\* the mismatches per factor of the whole call, and how far the call has
\* followed, with no other event, the path "listed caller id, the
\* candidate's date, the candidate's digits" (-1 once it left that path)
Observe(o, gd, ev, res) ==
    LET dobMiss == ev.name = "verify_dob" /\ DobEvaluated(gd)
                   /\ ~DobMatches(gd, ev.arg)
        ssnMiss == ev.name = "verify_ssn" /\ SsnEvaluated(gd)
                   /\ ~SsnMatches(gd, ev.arg)
        identified == ev.name = "identify_by_phone"
                      /\ ev.arg \in DOMAIN PATIENTS
    IN  [dob_matched |->
             IF ev.name = "verify_dob" /\ DobMatches(gd, ev.arg)
             THEN o.dob_matched \cup {Candidate(gd)} ELSE o.dob_matched,
         ssn_matched |->
             IF ev.name = "verify_ssn" /\ SsnMatches(gd, ev.arg)
             THEN o.ssn_matched \cup {Candidate(gd)} ELSE o.ssn_matched,
         dob_run |-> IF dobMiss THEN Bump(o.dob_run) ELSE 0,
         ssn_run |-> IF ssnMiss THEN Bump(o.ssn_run) ELSE 0,
         dob_miss |-> IF identified THEN 0
                      ELSE IF dobMiss THEN Bump(o.dob_miss) ELSE o.dob_miss,
         ssn_miss |-> IF identified THEN 0
                      ELSE IF ssnMiss THEN Bump(o.ssn_miss) ELSE o.ssn_miss,
         lock_event |->
             IF o.lock_event.name = "none"
                /\ \E i \in DOMAIN res.actions : res.actions[i] = Hangup
             THEN ev ELSE o.lock_event,
         dob_total |-> IF dobMiss THEN Bump(o.dob_total) ELSE o.dob_total,
         ssn_total |-> IF ssnMiss THEN Bump(o.ssn_total) ELSE o.ssn_total,
         path |->
             IF o.path = 0 /\ identified THEN 1
             ELSE IF o.path = 1 /\ ev.name = "verify_dob"
                     /\ DobMatches(gd, ev.arg) THEN 2
             ELSE IF o.path = 2 /\ ev.name = "verify_ssn"
                     /\ SsnMatches(gd, ev.arg) THEN 3
             ELSE -1]

----------------------------------------------------------------------------
(* The state machine: one call, its events delivered one at a time *)

NoResult == Result(<<"none">>, <<>>, EmptyDict, <<>>)

\* route_call not called
NoRouteCall == [base |-> None, department |-> None, res |-> NoResult]

\* the call as it starts
SessionInit ==
    /\ \E hour \in Hours : global_data = ConfiguredGlobalData(hour)
    /\ call_id \in CallIds
    /\ log = <<>>
    /\ intents = <<>>
    /\ last = [ev |-> NoEvent, pre |-> global_data, res |-> NoResult]
    /\ obs = NoObs
    /\ now = 0
    /\ pending = <<>>

Init == SessionInit /\ gateway = NoRouteCall

\* the platform applies a result: the update is merged into the session, the
\* actions go to call control; the entries were logged while the handler ran
Deliver(ev, res) ==
    /\ Len(log) + Len(res.audit) <= MaxLog
    /\ Len(intents) + Len(res.actions) <= MaxIntents
    /\ global_data' = Merge(global_data, res.update)
    /\ log' = log \o res.audit
    /\ intents' = intents \o res.actions
    /\ last' = [ev |-> ev, pre |-> global_data, res |-> res]
    /\ obs' = Observe(obs, global_data, ev, res)
    /\ now' = IF "verified_at" \in DOMAIN res.update THEN now + 1 ELSE now
    /\ UNCHANGED <<call_id, pending, gateway>>

IdentifyByPhone ==
    \E caller_id \in CallerIds :
        Deliver(Event("identify_by_phone", caller_id),
                identify_by_phone(global_data, call_id, caller_id))

VerifyDob ==
    \E dob \in DobInputs :
        Deliver(Event("verify_dob", dob),
                verify_dob(global_data, call_id, dob))

VerifySsn ==
    \E ssn_last4 \in SsnInputs :
        Deliver(Event("verify_ssn", ssn_last4),
                verify_ssn(global_data, call_id, ssn_last4, now))

RouteAppointments ==
    Deliver(Event("route_appointments", None),
            route_appointments(global_data))

RouteBilling ==
    Deliver(Event("route_billing", None), route_billing(global_data))

RouteMedical ==
    Deliver(Event("route_medical", None), route_medical(global_data))

Next ==
    \/ IdentifyByPhone
    \/ VerifyDob
    \/ VerifySsn
    \/ RouteAppointments
    \/ RouteBilling
    \/ RouteMedical

Spec == Init /\ [][Next]_vars

----------------------------------------------------------------------------
(* The same call with events that overlap. The handlers take no lock: each *)
(* computes its result from the global_data it was handed, logging as it   *)
(* runs, and the platform applies the result when the handler has          *)
(* returned, in any order.                                                 *)

\* what the overlapping events are drawn from
OverlapCallerIds == {Phone1}
OverlapDobInputs == {Dob1, Dob1OffByOne}
OverlapSsnInputs == {Ssn1, Ssn2}

RECURSIVE PendingActions(_)
PendingActions(q) ==
    IF q = <<>> THEN 0 ELSE Len(Head(q).res.actions) + PendingActions(Tail(q))

\* a handler runs on the session as it is now
Begin(ev, res) ==
    /\ Len(pending) < MaxInFlight
    /\ Len(log) + Len(res.audit) <= MaxLog
    /\ Len(intents) + PendingActions(pending) + Len(res.actions) <= MaxIntents
    /\ pending' = Append(pending, [ev |-> ev, pre |-> global_data, res |-> res])
    /\ log' = log \o res.audit
    /\ obs' = Observe(obs, global_data, ev, res)
    /\ now' = IF "verified_at" \in DOMAIN res.update THEN now + 1 ELSE now
    /\ UNCHANGED <<global_data, call_id, intents, last, gateway>>

\* the platform applies the result of a handler that has returned
Complete ==
    \E i \in DOMAIN pending :
        /\ global_data' = Merge(global_data, pending[i].res.update)
        /\ intents' = intents \o pending[i].res.actions
        /\ last' = pending[i]
        /\ pending' = SubSeq(pending, 1, i - 1)
                          \o SubSeq(pending, i + 1, Len(pending))
        /\ UNCHANGED <<call_id, log, obs, now, gateway>>

BeginIdentifyByPhone ==
    \E caller_id \in OverlapCallerIds :
        Begin(Event("identify_by_phone", caller_id),
              identify_by_phone(global_data, call_id, caller_id))

BeginVerifyDob ==
    \E dob \in OverlapDobInputs :
        Begin(Event("verify_dob", dob), verify_dob(global_data, call_id, dob))

BeginVerifySsn ==
    \E ssn_last4 \in OverlapSsnInputs :
        Begin(Event("verify_ssn", ssn_last4),
              verify_ssn(global_data, call_id, ssn_last4, now))

BeginRouteAppointments ==
    Begin(Event("route_appointments", None), route_appointments(global_data))

BeginRouteBilling ==
    Begin(Event("route_billing", None), route_billing(global_data))

BeginRouteMedical ==
    Begin(Event("route_medical", None), route_medical(global_data))

NextConcurrent ==
    \/ BeginIdentifyByPhone
    \/ BeginVerifyDob
    \/ BeginVerifySsn
    \/ BeginRouteAppointments
    \/ BeginRouteBilling
    \/ BeginRouteMedical
    \/ Complete

SpecConcurrent == Init /\ [][NextConcurrent]_vars

----------------------------------------------------------------------------
(* Vocabulary of the properties *)

Has(seq, x) == \E i \in DOMAIN seq : seq[i] = x

IsTransfer(a) == a[1] = "swml_transfer"

RouteEvents == {"route_appointments", "route_billing", "route_medical"}

Attempts(gd) == GetOr(gd, "verification_attempts", 0)

\* the recording action that came last decides whether recording is paused
RECURSIVE RecordingPaused(_)
RecordingPaused(seq) ==
    IF seq = <<>> THEN FALSE
    ELSE IF seq[Len(seq)] = PauseRecording THEN TRUE
    ELSE IF seq[Len(seq)] = ResumeRecording THEN FALSE
    ELSE RecordingPaused(SubSeq(seq, 1, Len(seq) - 1))

\* the call-control actions emitted before the last event
IntentsBefore == SubSeq(intents, 1, Len(intents) - Len(last.res.actions))

\* a hangup for too many attempts was emitted before the last event
LockedBefore == Has(IntentsBefore, Hangup)

\* the last event was a value compared with the candidate's and found wrong
LastDobMismatch ==
    /\ last.ev.name = "verify_dob"
    /\ DobEvaluated(last.pre)
    /\ ~DobMatches(last.pre, last.ev.arg)

LastSsnMismatch ==
    /\ last.ev.name = "verify_ssn"
    /\ SsnEvaluated(last.pre)
    /\ ~SsnMatches(last.pre, last.ev.arg)

LastAuditTypes == {last.res.audit[i].type : i \in DOMAIN last.res.audit}

----------------------------------------------------------------------------
(* C1: whenever the session is verified, dob_verified is set and a         *)
(* verify_ssn event whose digits hash to the stored digest of the patient  *)
(* recorded as verified was processed: neither factor can be skipped.      *)
C1_VerifiedNeedsBothFactors ==
    Flag(global_data, "verified") =>
        /\ Flag(global_data, "dob_verified")
        /\ Get(global_data, "patient_id") \in obs.ssn_matched

C1_Witness ==
    /\ Flag(global_data, "verified")
    /\ Flag(global_data, "dob_verified")
    /\ Get(global_data, "patient_id") \in obs.ssn_matched
    /\ last.ev.name = "verify_ssn"

(* C2: a transfer is emitted only by a route event read on a verified      *)
(* session; a route event on a session that is not verified is answered    *)
(* "verify your identity first", emits nothing, logs nothing and leaves    *)
(* the session as it was; on a verified session route_billing emits the    *)
(* transfer to /billing.                                                   *)
C2_TransferOnlyWhenVerified ==
    /\ \A i \in DOMAIN intents :
           IsTransfer(intents[i]) => Flag(global_data, "verified")
    /\ (\E i \in DOMAIN last.res.actions : IsTransfer(last.res.actions[i])) =>
           last.ev.name \in RouteEvents /\ Flag(last.pre, "verified")
    /\ (last.ev.name \in RouteEvents /\ ~Flag(last.pre, "verified")) =>
           /\ last.res.reply = <<"verify_identity_first">>
           /\ last.res.actions = <<>>
           /\ last.res.audit = <<>>
           /\ global_data = last.pre
    /\ (last.ev.name = "route_billing" /\ Flag(last.pre, "verified")) =>
           last.res.actions = <<Transfer("/billing")>>

C2_Witness ==
    /\ last.ev.name = "route_billing"
    /\ Flag(last.pre, "verified")
    /\ Has(intents, Transfer("/billing"))

(* C3: on either factor the third of three consecutive mismatching        *)
(* submissions is answered with a hangup (for the date of birth, with a    *)
(* VERIFICATION_LOCKED entry as well), and a session that verify_dob hangs *)
(* up on never had dob_verified set.                                       *)
C3_ThreeMismatchesLockOut ==
    /\ obs.dob_run >= MAX_VERIFICATION_ATTEMPTS =>
           /\ Has(last.res.actions, Hangup)
           /\ "VERIFICATION_LOCKED" \in LastAuditTypes
    /\ obs.ssn_run >= MAX_VERIFICATION_ATTEMPTS =>
           Has(last.res.actions, Hangup)
    /\ (last.ev.name = "verify_dob" /\ Has(last.res.actions, Hangup)) =>
           ~Flag(global_data, "dob_verified")

(* C4: once a hangup for too many attempts was emitted, every further      *)
(* event leaves the session as it was, is not compared or logged, emits no *)
(* transfer and is answered with the call-back redirect.                   *)
C4_LockedIsTerminal ==
    LockedBefore =>
        /\ global_data = last.pre
        /\ last.res.audit = <<>>
        /\ ~\E i \in DOMAIN last.res.actions : IsTransfer(last.res.actions[i])
        /\ last.res.reply = <<"too_many_attempts_call_back">>

C6_NotPausedAtLockout ==
    Has(last.res.actions, Hangup) => ~RecordingPaused(intents)

(* C7: verify_ssn read on a session whose dob_verified is not set, with    *)
(* any digits, is answered "verify your date of birth first" and changes   *)
(* nothing: the session (stage, candidate, counter) stays as it was, no    *)
(* entry is logged and no action is emitted.                               *)
C7_SsnBeforeDobIsRejected ==
    (last.ev.name = "verify_ssn" /\ ~Flag(last.pre, "dob_verified")) =>
        /\ last.res.reply = <<"verify_dob_first">>
        /\ global_data = last.pre
        /\ last.res.audit = <<>>
        /\ last.res.actions = <<>>

\* the candidate's own digits, submitted before the date of birth
C7_Witness ==
    /\ last.ev.name = "verify_ssn"
    /\ ~Flag(last.pre, "dob_verified")
    /\ Candidate(last.pre) = P001
    /\ last.ev.arg = Ssn1
    /\ last.res.reply = <<"verify_dob_first">>

(* C8: once a candidate patient is set, no event changes the candidate id  *)
(* or the expected date of birth, and an identify_by_phone that finds a    *)
(* record leaves the whole session, the attempt counter included, as it    *)
(* was.                                                                    *)
C8_CandidateImmutable ==
    NonEmpty(last.pre, "pending_patient_id") =>
        /\ Get(global_data, "pending_patient_id")
               = Get(last.pre, "pending_patient_id")
        /\ Get(global_data, "pending_dob") = Get(last.pre, "pending_dob")
        /\ (last.ev.name = "identify_by_phone"
                /\ last.ev.arg \in DOMAIN PATIENTS) =>
               global_data = last.pre

(* C9: no logged entry has a key among ssn, ssn_last4, dob, and no entry   *)
(* logged for a verify_dob or verify_ssn event holds a value equal to the  *)
(* date or digits that event supplied.                                     *)
C9_AuditIsRedacted ==
    /\ \A i \in DOMAIN log :
           \A kv \in log[i].data : kv[1] \notin SensitiveKeys
    /\ last.ev.name \in {"verify_dob", "verify_ssn"} =>
           \A i \in DOMAIN last.res.audit :
               \A kv \in last.res.audit[i].data : kv[2] # StrV(last.ev.arg)

\* entries were logged for a wrong date and for wrong digits
C9_Witness ==
    /\ \E i \in DOMAIN log : log[i].type = "VERIFICATION_LOCKED"
    /\ last.ev.name = "verify_ssn"
    /\ "SSN_VERIFICATION_FAILED" \in LastAuditTypes

\* an entry that records a lockout
IsLockoutEntry(e) ==
    \/ e.type = "VERIFICATION_LOCKED"
    \/ /\ e.type = "SSN_VERIFICATION_FAILED"
       /\ <<"attempts", IntV(MAX_VERIFICATION_ATTEMPTS)>> \in e.data

(* C10: the event that caused the lockout, delivered again to the locked   *)
(* session, leaves the session as it was and logs nothing, so the log      *)
(* never holds more than one lockout entry.                                *)
C10_RedeliveryIsIdempotent ==
    /\ (/\ LockedBefore
        /\ last.ev.name = obs.lock_event.name
        /\ last.ev.arg = obs.lock_event.arg) =>
           /\ global_data = last.pre
           /\ last.res.audit = <<>>
    /\ Cardinality({i \in DOMAIN log : IsLockoutEntry(log[i])}) <= 1

\* how many entries of a type the log holds
Logged(type) == Cardinality({i \in DOMAIN log : log[i].type = type})

(* C11: events of one call that overlap are processed as if one at a time, *)
(* so no mismatch is lost: in a call identified once, when every result    *)
(* has been applied, MAX_VERIFICATION_ATTEMPTS mismatches evaluated on a   *)
(* factor have led to a hangup, and no two SSN failures below the limit    *)
(* were logged with the same attempt number.                               *)
C11_NoMismatchLost ==
    Logged("PATIENT_IDENTIFIED") <= 1 =>
        /\ (/\ pending = <<>>
            /\ \/ obs.dob_total >= MAX_VERIFICATION_ATTEMPTS
               \/ obs.ssn_total >= MAX_VERIFICATION_ATTEMPTS) =>
               Has(intents, Hangup)
        /\ \A n \in 1..(MAX_VERIFICATION_ATTEMPTS - 1) :
               Cardinality({i \in DOMAIN log :
                   /\ log[i].type = "SSN_VERIFICATION_FAILED"
                   /\ <<"attempts", IntV(n)>> \in log[i].data}) <= 1

C13_LookupMissChangesNothing ==
    (last.ev.name = "identify_by_phone" /\ last.ev.arg \notin DOMAIN PATIENTS)
        => /\ last.res.reply = <<"phone_not_recognized">>
           /\ global_data = last.pre
           /\ last.res.audit = <<>>
           /\ last.res.actions = <<>>

\* a miss on a session that has a candidate and a counted mismatch
C13_Witness ==
    /\ last.ev.name = "identify_by_phone"
    /\ last.ev.arg = PhoneUnlisted
    /\ Attempts(last.pre) = 1
    /\ Attempts(global_data) = 1
    /\ last.res.reply = <<"phone_not_recognized">>

(* ---- GatewayAgent.route_call ---- *)

\* str.lower() on the letters the department names are written with
LowerOf ==
    [c \in {"A", "B", "C", "D", "E", "G", "I", "L", "M", "N", "O", "P",
            "R", "S", "T", "V"} |->
        CASE c = "A" -> "a" [] c = "B" -> "b" [] c = "C" -> "c"
          [] c = "D" -> "d" [] c = "E" -> "e" [] c = "G" -> "g"
          [] c = "I" -> "i" [] c = "L" -> "l" [] c = "M" -> "m"
          [] c = "N" -> "n" [] c = "O" -> "o" [] c = "P" -> "p"
          [] c = "R" -> "r" [] c = "S" -> "s" [] c = "T" -> "t"
          [] c = "V" -> "v"]

Lower(s) == [i \in DOMAIN s |-> IF s[i] \in DOMAIN LowerOf THEN LowerOf[s[i]] ELSE s[i]]

Member == <<"m", "e", "m", "b", "e", "r">>
Provider == <<"p", "r", "o", "v", "i", "d", "e", "r">>
Appointments == <<"a", "p", "p", "o", "i", "n", "t", "m", "e", "n", "t", "s">>
Billing == <<"b", "i", "l", "l", "i", "n", "g">>
Medical == <<"m", "e", "d", "i", "c", "a", "l">>

DEPARTMENTS ==
    (Member :> [route |-> "/member"]) @@
    (Provider :> [route |-> "/provider"]) @@
    (Appointments :> [route |-> "/appointments"]) @@
    (Billing :> [route |-> "/billing"])

\* DEPARTMENTS.keys(), in the order of the table
DepartmentKeys == <<Member, Provider, Appointments, Billing>>

\* route_call from the table lookup on
route_call_lookup(department) ==
    IF department \notin DOMAIN DEPARTMENTS
    THEN Result(<<"unknown_department", department, DepartmentKeys>>,
                <<>>, EmptyDict, <<>>)
    ELSE Result(<<"connecting_to_services", department>>,
                <<Transfer(DEPARTMENTS[department].route)>>,
                EmptyDict, <<>>)

\* route_call looking the name up as it was given
route_call_as_given(department) == route_call_lookup(department)

route_call(department) == route_call_lookup(Lower(department))

\* the names a caller may ask for, written lower case; "" is the default of
\* args.get
AskedNames == {Member, Provider, Appointments, Billing, Medical, <<>>}

\* a name in every letter case
RECURSIVE CaseVariants(_)
CaseVariants(name) ==
    IF name = <<>> THEN {<<>>}
    ELSE {<<c>> \o rest :
              c \in {name[1]} \cup {u \in DOMAIN LowerOf : LowerOf[u] = name[1]},
              rest \in CaseVariants(Tail(name))}

\* a request as it arrives: the name asked for and the way it is written
InitGateway ==
    /\ SessionInit
    /\ \E base \in AskedNames :
           \E department \in CaseVariants(base) :
               gateway = [base |-> base, department |-> department,
                          res |-> NoResult]

RouteCall ==
    /\ gateway.res = NoResult
    /\ gateway.department # None
    /\ gateway' = [gateway EXCEPT !.res = route_call(gateway.department)]
    /\ UNCHANGED <<global_data, call_id, log, intents, last, obs, now, pending>>

SpecGateway == InitGateway /\ [][RouteCall]_vars

(* C14: route_call lower-cases the department name and looks it up in      *)
(* DEPARTMENTS: a name of the table, in any letter case, gives exactly one *)
(* final transfer, to the route the table has for that department; any     *)
(* other name gives no transfer and a reply that lists every name of the   *)
(* table.                                                                  *)
C14_RouteByDepartmentName ==
    gateway.res # NoResult =>
        /\ gateway.base \in DOMAIN DEPARTMENTS =>
               gateway.res.actions = <<Transfer(DEPARTMENTS[gateway.base].route)>>
        /\ gateway.base \notin DOMAIN DEPARTMENTS =>
               /\ \A i \in DOMAIN gateway.res.actions :
                      ~IsTransfer(gateway.res.actions[i])
               /\ gateway.res.reply[1] = "unknown_department"
               /\ {gateway.res.reply[3][i] : i \in DOMAIN gateway.res.reply[3]}
                      = DOMAIN DEPARTMENTS

\* "BiLLing" reaches /billing
C14_Witness ==
    /\ gateway.base = Billing
    /\ gateway.department = <<"B", "i", "L", "L", "i", "n", "g">>
    /\ gateway.res.actions = <<Transfer("/billing")>>

(* C15: verified_at is written once: on a session that is already verified *)
(* no event writes verified_at again, logs another VERIFICATION_SUCCESS or *)
(* resumes recording again.                                                *)
C15_VerifiedAtSetOnce ==
    /\ Logged("VERIFICATION_SUCCESS") <= 1
    /\ Flag(last.pre, "verified") =>
           /\ global_data["verified_at"] = last.pre["verified_at"]
           /\ ~Has(last.res.actions, ResumeRecording)

\* UNIDENTIFIED 0, DOB_PENDING 1, SSN_PENDING 2, VERIFIED 3
Stage(gd) ==
    IF Flag(gd, "verified") THEN 3
    ELSE IF Flag(gd, "dob_verified") THEN 2
    ELSE IF NonEmpty(gd, "pending_patient_id") THEN 1
    ELSE 0

(* C16: the stage derived from the session never moves back and never      *)
(* moves by more than one step in one event: no event clears the           *)
(* candidate, dob_verified or verified, and verified is only found with    *)
(* dob_verified, dob_verified only with a candidate.                       *)
C16_StageMovesForward ==
    /\ Stage(global_data) \in {Stage(last.pre), Stage(last.pre) + 1}
    /\ NonEmpty(last.pre, "pending_patient_id") =>
           NonEmpty(global_data, "pending_patient_id")
    /\ Flag(last.pre, "dob_verified") => Flag(global_data, "dob_verified")
    /\ Flag(last.pre, "verified") => Flag(global_data, "verified")
    /\ Flag(global_data, "verified") => Flag(global_data, "dob_verified")
    /\ Flag(global_data, "dob_verified") =>
           NonEmpty(global_data, "pending_patient_id")

C16_Witness ==
    /\ Stage(last.pre) = 2
    /\ Stage(global_data) = 3

LogTypes == [i \in DOMAIN log |-> log[i].type]

(* C17: a fresh call that is identified by a listed caller id, then gives  *)
(* the candidate's date of birth, then the candidate's digits: the first   *)
(* step logs PATIENT_IDENTIFIED and greets the patient by name, the second *)
(* logs DOB_VERIFIED and pauses recording, the third logs                  *)
(* VERIFICATION_SUCCESS, resumes recording and sets verified and           *)
(* verified_at; no attempt is counted, and the actions are one pause       *)
(* followed by one resume.                                                 *)
C17_HappyPath ==
    /\ obs.path = 1 =>
           /\ LogTypes = <<"PATIENT_IDENTIFIED">>
           /\ intents = <<>>
           /\ Stage(global_data) = 1
           /\ last.res.reply[3] = RecordOf(Candidate(global_data)).name
    /\ obs.path = 2 =>
           /\ LogTypes = <<"PATIENT_IDENTIFIED", "DOB_VERIFIED">>
           /\ intents = <<PauseRecording>>
           /\ Stage(global_data) = 2
    /\ obs.path = 3 =>
           /\ LogTypes = <<"PATIENT_IDENTIFIED", "DOB_VERIFIED",
                           "VERIFICATION_SUCCESS">>
           /\ intents = <<PauseRecording, ResumeRecording>>
           /\ Stage(global_data) = 3
           /\ "verified_at" \in DOMAIN global_data
           /\ Get(global_data, "patient_id") = Candidate(global_data)
    /\ obs.path \in 1..3 => Attempts(global_data) = 0

C17_Witness ==
    /\ obs.path = 3
    /\ Flag(global_data, "verified")
    /\ last.ev = Event("verify_ssn", Ssn1)

(* C18: guessing is bounded: no event lowers the attempt counter, and a    *)
(* call in which MAX_VERIFICATION_ATTEMPTS mismatches were evaluated on a  *)
(* factor has been verified or hung up.                                    *)
C18_BoundedGuessing ==
    /\ Attempts(global_data) >= Attempts(last.pre)
    /\ (\/ obs.dob_total >= MAX_VERIFICATION_ATTEMPTS
        \/ obs.ssn_total >= MAX_VERIFICATION_ATTEMPTS) =>
           Has(intents, Hangup) \/ Flag(global_data, "verified")

(* C19: the patient recorded as verified is one whose own date of birth    *)
(* was matched by a verify_dob of this call and whose own digest was       *)
(* matched by a verify_ssn of this call.                                   *)
C19_SamePatientBinding ==
    Flag(global_data, "verified") =>
        /\ Get(global_data, "patient_id") \in obs.dob_matched
        /\ Get(global_data, "patient_id") \in obs.ssn_matched

(* C20: every verify_ssn that is compared with the stored digest is read   *)
(* while recording is paused: a pause was emitted and no resume since.     *)
C20_SsnOnlyWhilePaused ==
    (last.ev.name = "verify_ssn" /\ SsnEvaluated(last.pre)) =>
        RecordingPaused(IntentsBefore)

====
